---- MODULE Spec2Model ----
(***************************************************************************)
(* Model of aliyun/log/es_migration/migration_manager.py:                  *)
(* MigrationManager.migrate, task discovery and the tasks.json ledger,     *)
(* the process pool with its futures, the shutdown.lock flag file and      *)
(* _migration_worker.                                                      *)
(***************************************************************************)
EXTENDS Integers, Sequences, FiniteSets, TLC

(* ------------------------------ bounds --------------------------------- *)
MaxGroups == 3      \* shard groups reported by search_shards
MaxShard == 2       \* shards per index
MaxPool == 2        \* configured pool_size ranges over 1..MaxPool
MaxSignals == 1     \* SIGINT/SIGTERM deliveries in one run
MaxRuns == 3        \* discovery runs against one cache directory
MaxSetups == 2      \* calls of _setup_logstore on one project

(* ------------------------- names and constants ------------------------- *)
\* Index and logstore names are sequences of characters.
IdxA == <<"a">>
IdxB == <<"b">>
IdxK == <<".", "k">>
Store1 == <<"s", "1">>
Store2 == <<"s", "2">>
IndexNames == {IdxA, IdxB, IdxK}

\* concurrent.futures.process.EXTRA_QUEUED_CALLS
EXTRA_QUEUED_CALLS == 1

\* Checkpoint statuses
CkFinished == "finished"
CkDropped == "dropped"
CkFailed == "failed"
CkInterrupted == "interrupted"

Min(a, b) == IF a <= b THEN a ELSE b

IsPrefix(s, t) == Len(s) <= Len(t) /\ SubSeq(t, 1, Len(s)) = s

(* ----------------------------- shard copies ---------------------------- *)
Copy(i, s, st, p) == [index |-> i, shard |-> s, state |-> st, primary |-> p]

\* The copies of one shard as search_shards reports them: at most one
\* primary per shard.
CopyLists(i, s) ==
    { <<Copy(i, s, "STARTED", FALSE), Copy(i, s, "STARTED", TRUE)>>,
      <<Copy(i, s, "STARTED", FALSE), Copy(i, s, "RELOCATING", TRUE)>> }

GroupIndex(g) == g[1].index

(* --------------------------- mapping resolver -------------------------- *)
Pat(pre, wild) == [pre |-> pre, wild |-> wild]

Matches(name, p) ==
    IF p.wild
    THEN Len(name) >= Len(p.pre) /\ SubSeq(name, 1, Len(p.pre)) = p.pre
    ELSE name = p.pre

RulesNone == {}
RulesA == {[logstore |-> Store1, patterns |-> {Pat(IdxA, TRUE)}]}
RulesB == {[logstore |-> Store2, patterns |-> {Pat(IdxA, FALSE)}],
           [logstore |-> Store1, patterns |-> {Pat(IdxB, FALSE)}]}
RuleSets == {RulesNone, RulesA, RulesB}

RuleFor(index, rules) ==
    {r \in rules : \E p \in r.patterns : Matches(index, p)}

\* IndexLogstoreMappings.get_logstore: the store of the matching rule, the
\* index name itself when no rule matches.
GetLogstore(index, rules) ==
    IF RuleFor(index, rules) = {}
    THEN index
    ELSE (CHOOSE r \in RuleFor(index, rules) : TRUE).logstore

\* IndexLogstoreMappings.get_all_logstores for the index names it was built from
GetAllLogstores(indexes, rules) == {GetLogstore(i, rules) : i \in indexes}

(* ------------------------------ discovery ------------------------------ *)
\* Elasticsearch.search_shards(indexes): all shard groups, or those of the
\* named indexes.
SearchShards(topo, indexes) ==
    SelectSeq(topo, LAMBDA g : indexes = {} \/ GroupIndex(g) \in indexes)

\* variant of ScanItems: the primary flag of a copy is not tested
RECURSIVE ScanItemsAnyCopy(_, _, _)
ScanItemsAnyCopy(items, indexes, acc) ==
    IF items = <<>> THEN acc
    ELSE LET item == Head(items) IN
         IF indexes = {} /\ item.index[1] = "."
         THEN ScanItemsAnyCopy(Tail(items), indexes, acc)
         ELSE IF item.state = "STARTED"
         THEN ScanItemsAnyCopy(Tail(items), indexes,
                  Append(acc, [es_index |-> item.index, es_shard |-> item.shard]))
         ELSE ScanItemsAnyCopy(Tail(items), indexes, acc)

\* inner loop of _discover_tasks over the copies of one shard
RECURSIVE ScanItems(_, _, _)
ScanItems(items, indexes, acc) ==
    IF items = <<>> THEN acc
    ELSE LET item == Head(items) IN
         IF indexes = {} /\ item.index[1] = "."
         THEN ScanItems(Tail(items), indexes, acc)
         ELSE IF item.state = "STARTED" /\ item.primary
         THEN ScanItems(Tail(items), indexes,
                  Append(acc, [es_index |-> item.index, es_shard |-> item.shard]))
         ELSE ScanItems(Tail(items), indexes, acc)

\* outer loop of _discover_tasks
RECURSIVE ScanShards(_, _, _)
ScanShards(shards, indexes, acc) ==
    IF shards = <<>> THEN acc
    ELSE ScanShards(Tail(shards), indexes, ScanItems(Head(shards), indexes, acc))

DiscoveredTasks(topo, indexes) ==
    ScanShards(SearchShards(topo, indexes), indexes, <<>>)

\* tasks.json: absent, a list of task records, text that is not JSON, or
\* JSON of another shape.
Absent == [kind |-> "absent", recs |-> <<>>]
Garbage == [kind |-> "garbage", recs |-> <<>>]
OtherShape == [kind |-> "object", recs |-> <<>>]
ListFile(recs) == [kind |-> "list", recs |-> recs]

\* json.loads of the file content, with the JSONDecodeError fallback
OldTasks(file) == IF file.kind = "list" THEN file.recs ELSE <<>>

\* A JSON value that is not a list of task records makes the dict
\* comprehension or the list concatenation raise.
HandleCacheRaises(file) == file.kind = "object"

TaskMap(old) == {<<old[i].es_index, old[i].es_shard>> : i \in 1..Len(old)}

\* variant of NewTasks: the lookup in task_map is left out
RECURSIVE NewTasksNoLookup(_, _, _, _, _)
NewTasksNoLookup(tasks, taskMap, rules, cnt, acc) ==
    IF tasks = <<>> THEN acc
    ELSE LET task == Head(tasks) IN
         NewTasksNoLookup(Tail(tasks), taskMap, rules, cnt + 1,
             Append(acc, [id |-> cnt,
                          es_index |-> task.es_index,
                          es_shard |-> task.es_shard,
                          logstore |-> GetLogstore(task.es_index, rules)]))

\* the loop of _handle_cache that numbers the pairs not in task_map
RECURSIVE NewTasks(_, _, _, _, _)
NewTasks(tasks, taskMap, rules, cnt, acc) ==
    IF tasks = <<>> THEN acc
    ELSE LET task == Head(tasks) IN
         IF <<task.es_index, task.es_shard>> \notin taskMap
         THEN NewTasks(Tail(tasks), taskMap, rules, cnt + 1,
                  Append(acc, [id |-> cnt,
                               es_index |-> task.es_index,
                               es_shard |-> task.es_shard,
                               logstore |-> GetLogstore(task.es_index, rules)]))
         ELSE NewTasks(Tail(tasks), taskMap, rules, cnt, acc)

\* variant of MergedTasks: the logstore of every old record is resolved again
MergedTasksRemapped(file, found, rules) ==
    LET old == OldTasks(file)
        remapped == [i \in 1..Len(old) |->
                       [old[i] EXCEPT !.logstore = GetLogstore(old[i].es_index, rules)]]
    IN  remapped \o NewTasks(found, TaskMap(old), rules, Len(old), <<>>)

\* tasks = old_tasks + new_tasks
MergedTasks(file, found, rules) ==
    LET old == OldTasks(file)
    IN  old \o NewTasks(found, TaskMap(old), rules, Len(old), <<>>)

\* the logstores _setup_aliyun_log sets up
SetupLogstores(found, rules) ==
    GetAllLogstores({found[i].es_index : i \in 1..Len(found)}, rules)

(* -------------------------------- state -------------------------------- *)
VARIABLES
    topology,     \* data['shards'] of the source cluster
    cfgIndexes,   \* config 'indexes' ({} when not set)
    cfgMappings,  \* config 'logstore_index_mappings'
    cfgPoolSize,  \* config 'pool_size'
    cfgAuto,      \* config 'auto_creation'
    ledgerFile,   \* content of <cache_path>/tasks.json
    flagFile,     \* <cache_path>/shutdown.lock exists
    staleFlag,    \* shutdown.lock existed when migrate() was called
    provisioned,  \* logstores set up by _setup_aliyun_log in this run
    pc,           \* position of migrate()
    tasks,        \* tasks returned by _discover_tasks
    poolSize,     \* max_workers of the executor
    pool,         \* "none", "open" (inside the with block) or "closed"
    fut,          \* futures, in submission order: state or result of each
    consumed,     \* futures the as_completed loop has handed out
    tally,        \* the state dict of migrate()
    err,          \* exception in flight or propagated out of migrate()
    signals,      \* signals delivered so far
    runs,         \* discovery runs so far
    dest,         \* logstores of the project and the index config of each
    esMappings,   \* mappings of each source index ("missing": no such index)
    setups,       \* calls of _setup_logstore so far
    configFile,   \* content of <cache_path>/config.json
    cont          \* MigrationConfig._cont of the last constructed config

vars == <<topology, cfgIndexes, cfgMappings, cfgPoolSize, cfgAuto, ledgerFile,
          flagFile, staleFlag, provisioned, pc, tasks, poolSize, pool, fut, consumed,
          tally, err, signals, runs, dest, esMappings, setups, configFile, cont>>

extVars == <<dest, esMappings, setups, configFile, cont>>
envVars == <<topology, cfgIndexes, cfgMappings, cfgPoolSize, cfgAuto, staleFlag,
             extVars>>

Results == {CkFinished, CkDropped, CkFailed, CkInterrupted}
DoneStates == Results \cup {"raised", "cancelled"}

ZeroTally(n) == [total |-> n, finished |-> 0, dropped |-> 0, failed |-> 0]

\* the pair of index i of the canonical cluster: MaxShard shards per index
Names == <<IdxA, IdxB, IdxK>>
PairIndex(i) == Names[(((i - 1) \div MaxShard) % 3) + 1]
PairShard(i) == (i - 1) % MaxShard
CanonGroup(i) ==
    IF i % 2 = 1
    THEN <<Copy(PairIndex(i), PairShard(i), "STARTED", TRUE)>>
    ELSE <<Copy(PairIndex(i), PairShard(i), "STARTED", FALSE),
           Copy(PairIndex(i), PairShard(i), "STARTED", TRUE)>>
CanonTopology(n) == [i \in 1..n |-> CanonGroup(i)]

(* ------------------------------- migrate ------------------------------- *)
\* variant of EffectivePoolSize: the configured size is ignored
EffectivePoolSizeTasks(cfg, taskCnt) == taskCnt

\* pool_size = min(self._config.get('pool_size'), task_cnt)
EffectivePoolSize(cfg, taskCnt) == Min(cfg, taskCnt)

\* variant of Count: a result that is not a key of state is counted as failed
CountUnknownAsFailed(st, res) ==
    IF res \in {CkFinished, CkDropped, CkFailed}
    THEN [st EXCEPT ![res] = @ + 1]
    ELSE [st EXCEPT !.failed = @ + 1]

\* state[res] += 1 if res in state
Count(st, res) ==
    IF res \in {CkFinished, CkDropped, CkFailed}
    THEN [st EXCEPT ![res] = @ + 1]
    ELSE st

\* variant of FileAtSetup: tasks.json is written after the setup only
FileAtSetupUnwritten(file, merged) == file

\* tasks.json when _setup_aliyun_log is called: the merged list is written
\* before it
FileAtSetup(file, merged) == ListFile(merged)

\* tasks = self._discover_tasks(), task_cnt, pool_size
Discover ==
    /\ pc = "start"
    /\ LET found == DiscoveredTasks(topology, cfgIndexes)
           merged == MergedTasks(ledgerFile, found, cfgMappings)
           stores == SetupLogstores(found, cfgMappings)
       IN  IF HandleCacheRaises(ledgerFile)
           THEN /\ pc' = "raised"
                /\ err' = "TypeError"
                /\ UNCHANGED <<ledgerFile, provisioned, tasks, poolSize>>
           ELSE /\ IF cfgAuto
                   THEN \E done \in SUBSET stores :
                          /\ provisioned' = done
                          /\ IF done = stores
                             THEN /\ ledgerFile' = ListFile(merged)
                                  /\ pc' = "prepare"
                                  /\ tasks' = merged
                                  /\ poolSize' =
                                       EffectivePoolSize(cfgPoolSize, Len(merged))
                                  /\ err' = err
                             ELSE /\ ledgerFile' = FileAtSetup(ledgerFile, merged)
                                  /\ pc' = "raised"
                                  /\ err' = "LogException"
                                  /\ UNCHANGED <<tasks, poolSize>>
                   ELSE /\ ledgerFile' = ListFile(merged)
                        /\ provisioned' = {}
                        /\ pc' = "prepare"
                        /\ tasks' = merged
                        /\ poolSize' = EffectivePoolSize(cfgPoolSize, Len(merged))
                        /\ err' = err
    /\ runs' = runs + 1
    /\ UNCHANGED <<envVars, flagFile, pool, fut, consumed, tally, signals>>

\* variant of Unlinked: a flag file that exists is left in place
UnlinkedNever(flag) == flag

\* if op.exists(self._shutdown_flag): os.unlink(self._shutdown_flag)
Unlinked(flag) == IF flag THEN FALSE ELSE flag

\* self._prepare(); futures = []; state = {...}
Prepare ==
    /\ pc = "prepare"
    /\ flagFile' = Unlinked(flagFile)
    /\ fut' = <<>>
    /\ tally' = ZeroTally(Len(tasks))
    /\ pc' = "pool"
    /\ UNCHANGED <<envVars, ledgerFile, provisioned, tasks, poolSize, pool,
                   consumed, err, signals, runs>>

\* with ProcessPoolExecutor(max_workers=pool_size) as pool:
\* the constructor raises ValueError when max_workers <= 0
CreatePool ==
    /\ pc = "pool"
    /\ IF poolSize <= 0
       THEN /\ pc' = "raised"
            /\ err' = "ValueError"
            /\ pool' = pool
       ELSE /\ pc' = IF Len(tasks) = 0 THEN "exit_pool" ELSE "submit"
            /\ err' = err
            /\ pool' = "open"
    /\ UNCHANGED <<envVars, ledgerFile, flagFile, provisioned, tasks, poolSize,
                   fut, consumed, tally, signals, runs>>

\* futures.append(pool.submit(_migration_worker, ...)) for the next task
Submit ==
    /\ pc = "submit"
    /\ Len(fut) < Len(tasks)
    /\ fut' = Append(fut, "pending")
    /\ pc' = IF Len(fut') = Len(tasks) THEN "aggregate" ELSE "submit"
    /\ UNCHANGED <<envVars, ledgerFile, flagFile, provisioned, tasks, poolSize,
                   pool, consumed, tally, err, signals, runs>>

\* one iteration of `for future in as_completed(futures)`
Aggregate(i) ==
    /\ pc = "aggregate"
    /\ i \in 1..Len(fut)
    /\ i \notin consumed
    /\ fut[i] \in DoneStates
    /\ consumed' = consumed \cup {i}
    /\ IF fut[i] = "raised"
       THEN /\ pc' = "except"
            /\ err' = "WorkerError"
            /\ tally' = tally
       ELSE /\ tally' = Count(tally, fut[i])
            /\ pc' = IF consumed' = 1..Len(fut) THEN "exit_pool" ELSE "aggregate"
            /\ err' = err
    /\ UNCHANGED <<envVars, ledgerFile, flagFile, provisioned, tasks, poolSize,
                   pool, fut, signals, runs>>

\* except BaseException: log, then cancel every future that is not done
CancelPending ==
    /\ pc = "except"
    /\ fut' = [i \in 1..Len(fut) |->
                 IF fut[i] = "pending" THEN "cancelled" ELSE fut[i]]
    /\ pc' = "grace"
    /\ err' = "none"
    /\ UNCHANGED <<envVars, ledgerFile, flagFile, provisioned, tasks, poolSize,
                   pool, consumed, tally, signals, runs>>

AllDone == \A i \in 1..Len(fut) : fut[i] \in DoneStates

\* list(as_completed(futures, timeout=10)): every future done in time
GraceDone ==
    /\ pc = "grace"
    /\ AllDone
    /\ pc' = "exit_pool"
    /\ UNCHANGED <<envVars, ledgerFile, flagFile, provisioned, tasks, poolSize,
                   pool, fut, consumed, tally, err, signals, runs>>

\* list(as_completed(futures, timeout=10)): the timeout expires first and
\* as_completed raises TimeoutError inside the except block
GraceTimeout ==
    /\ pc = "grace"
    /\ ~AllDone
    /\ err' = "TimeoutError"
    /\ pc' = "exit_pool"
    /\ UNCHANGED <<envVars, ledgerFile, flagFile, provisioned, tasks, poolSize,
                   pool, fut, consumed, tally, signals, runs>>

\* leaving the with block: shutdown(wait=True) joins the workers, which
\* first work off every future that is not cancelled
ExitPool ==
    /\ pc = "exit_pool"
    /\ AllDone
    /\ pool' = "closed"
    /\ pc' = IF err = "none" THEN "final" ELSE "raised"
    /\ UNCHANGED <<envVars, ledgerFile, flagFile, provisioned, tasks, poolSize,
                   fut, consumed, tally, err, signals, runs>>

\* the final log lines, print('exit:', ...) and return state
Return ==
    /\ pc = "final"
    /\ pc' = "returned"
    /\ UNCHANGED <<envVars, ledgerFile, flagFile, provisioned, tasks, poolSize,
                   pool, fut, consumed, tally, err, signals, runs>>

\* _handle_term_sig: write the flag file and raise KeyboardInterrupt at the
\* point migrate() has reached
HandleTermSig ==
    /\ pc \in {"pool", "submit", "aggregate", "except", "grace", "exit_pool",
               "final"}
    /\ signals < MaxSignals
    /\ signals' = signals + 1
    /\ flagFile' = TRUE
    /\ err' = "KeyboardInterrupt"
    /\ pc' = CASE pc = "aggregate" -> "except"
               [] pc \in {"submit", "except", "grace"} -> "exit_pool"
               [] OTHER -> "raised"
    /\ UNCHANGED <<envVars, ledgerFile, provisioned, tasks, poolSize, pool,
                   fut, consumed, tally, runs>>

(* ------------------------------- workers ------------------------------- *)
NumIn(states) == Cardinality({i \in 1..Len(fut) : fut[i] \in states})

First(state) ==
    CHOOSE i \in 1..Len(fut) :
        fut[i] = state /\ \A j \in 1..(i - 1) : fut[j] # state

\* the executor moves the oldest pending work item to its call queue and
\* marks the future running
Enqueue ==
    /\ NumIn({"pending"}) > 0
    /\ NumIn({"queued"}) < poolSize + EXTRA_QUEUED_CALLS
    /\ fut' = [fut EXCEPT ![First("pending")] = "queued"]
    /\ UNCHANGED <<envVars, ledgerFile, flagFile, provisioned, pc, tasks,
                   poolSize, pool, consumed, tally, err, signals, runs>>

\* variant of WorkerBody: the shutdown flag is not tested
WorkerBodyNoCheck(i, flag) == "running"

\* a free worker process takes the oldest queued call: _migration_worker
\* starts and tests the shutdown flag
WorkerBody(i, flag) == IF flag THEN CkInterrupted ELSE "running"

WorkerBegin ==
    /\ NumIn({"queued"}) > 0
    /\ NumIn({"running"}) < poolSize
    /\ fut' = [fut EXCEPT ![First("queued")] = WorkerBody(First("queued"), flagFile)]
    /\ UNCHANGED <<envVars, ledgerFile, flagFile, provisioned, pc, tasks,
                   poolSize, pool, consumed, tally, err, signals, runs>>

\* MigrationLogstore(...), MigrationTask(...).run(): a status is returned or
\* an exception is logged and raised again
WorkerFinish(i, outcome) ==
    /\ i \in 1..Len(fut)
    /\ fut[i] = "running"
    /\ outcome \in {CkFinished, CkDropped, CkFailed, "raised"}
    /\ fut' = [fut EXCEPT ![i] = outcome]
    /\ UNCHANGED <<envVars, ledgerFile, flagFile, provisioned, pc, tasks,
                   poolSize, pool, consumed, tally, err, signals, runs>>

\* A worker process inherits the handlers _prepare installed: a signal that
\* reaches it while it runs a task writes the flag file and raises
\* KeyboardInterrupt in the worker, which logs it and raises it again.
WorkerTermSig(i) ==
    /\ i \in 1..Len(fut)
    /\ fut[i] = "running"
    /\ signals < MaxSignals
    /\ signals' = signals + 1
    /\ flagFile' = TRUE
    /\ fut' = [fut EXCEPT ![i] = "raised"]
    /\ UNCHANGED <<envVars, ledgerFile, provisioned, pc, tasks, poolSize, pool,
                   consumed, tally, err, runs>>

(* ----------------------------- provisioning ---------------------------- *)
NoIndex == <<>>
OldIndex == <<"index", "m0">>
DestStores == {Store1, Store2, IdxA, IdxB}
NoStore == [exists |-> FALSE, index |-> NoIndex]
DestStates == {NoStore,
               [exists |-> TRUE, index |-> NoIndex],
               [exists |-> TRUE, index |-> OldIndex]}

\* MappingIndexConverter.to_index_config
ToIndexConfig(mappings) == <<"index", mappings>>

Ok(d) == [dest |-> d, code |-> "none"]
Failed(d, code) == [dest |-> d, code |-> code]

\* LogClient.create_logstore
CreateLogstore(d, logstore) ==
    IF d[logstore].exists
    THEN Failed(d, "LogStoreAlreadyExist")
    ELSE Ok([d EXCEPT ![logstore] = [exists |-> TRUE, index |-> NoIndex]])

\* LogClient.create_index
CreateIndex(d, logstore, config) ==
    IF ~d[logstore].exists THEN Failed(d, "LogStoreNotExist")
    ELSE IF d[logstore].index # NoIndex THEN Failed(d, "IndexAlreadyExist")
    ELSE Ok([d EXCEPT ![logstore].index = config])

\* LogClient.update_index
UpdateIndex(d, logstore, config) ==
    IF ~d[logstore].exists THEN Failed(d, "LogStoreNotExist")
    ELSE IF d[logstore].index = NoIndex THEN Failed(d, "IndexConfigNotExist")
    ELSE Ok([d EXCEPT ![logstore].index = config])

\* IndexLogstoreMappings.get_indexes
GetIndexes(logstore, indexes, rules) ==
    SelectSeq(indexes, LAMBDA i : GetLogstore(i, rules) = logstore)

\* variant of SetupIndex: IndexAlreadyExist is raised like any other error
RECURSIVE SetupIndexNoUpdate(_, _, _, _)
SetupIndexNoUpdate(d, logstore, indexes, es) ==
    IF indexes = <<>> THEN Ok(d)
    ELSE IF es[Head(indexes)] = "missing"
    THEN SetupIndexNoUpdate(d, logstore, Tail(indexes), es)
    ELSE LET created == CreateIndex(d, logstore, ToIndexConfig(es[Head(indexes)]))
         IN  IF created.code = "none"
             THEN SetupIndexNoUpdate(created.dest, logstore, Tail(indexes), es)
             ELSE created

\* the loop of _setup_index over the indexes of the logstore
RECURSIVE SetupIndex(_, _, _, _)
SetupIndex(d, logstore, indexes, es) ==
    IF indexes = <<>> THEN Ok(d)
    ELSE IF es[Head(indexes)] = "missing"
    THEN SetupIndex(d, logstore, Tail(indexes), es)
    ELSE LET config == ToIndexConfig(es[Head(indexes)])
             created == CreateIndex(d, logstore, config)
             updated == UpdateIndex(d, logstore, config)
         IN  IF created.code = "none"
             THEN SetupIndex(created.dest, logstore, Tail(indexes), es)
             ELSE IF created.code = "IndexAlreadyExist"
             THEN IF updated.code = "none"
                  THEN SetupIndex(updated.dest, logstore, Tail(indexes), es)
                  ELSE updated
             ELSE created

\* _setup_logstore
SetupLogstore(d, logstore, indexes, es) ==
    LET created == CreateLogstore(d, logstore)
    IN  IF created.code \in {"none", "LogStoreAlreadyExist"}
        THEN SetupIndex(created.dest, logstore, indexes, es)
        ELSE created

\* the index names IndexLogstoreMappings is built from in _handle_cache
FoundIndexes ==
    LET found == DiscoveredTasks(topology, cfgIndexes)
    IN  [i \in 1..Len(found) |-> found[i].es_index]

\* one call of _setup_logstore from the loop of _setup_aliyun_log
SetupLogstoreCall(logstore) ==
    /\ pc = "start"
    /\ setups < MaxSetups
    /\ logstore \in SetupLogstores(DiscoveredTasks(topology, cfgIndexes), cfgMappings)
    /\ LET done == SetupLogstore(dest, logstore,
                       GetIndexes(logstore, FoundIndexes, cfgMappings), esMappings)
       IN  /\ dest' = done.dest
           /\ err' = done.code
    /\ setups' = setups + 1
    /\ UNCHANGED <<topology, cfgIndexes, cfgMappings, cfgPoolSize, cfgAuto,
                   ledgerFile, flagFile, staleFlag, provisioned, pc, tasks,
                   poolSize, pool, fut, consumed, tally, signals, runs,
                   esMappings, configFile, cont>>

(* ---------------------------- MigrationConfig --------------------------- *)
\* An argument or a cached value is <<>> for None and <<v>> for the value v.
None == <<>>
default_pool_size == 10

ConfigFields == {"hosts", "time_reference", "pool_size", "auto_creation"}

\* the keyword arguments of a call of MigrationConfig(...); auto_creation
\* is None when the caller leaves it out
ConfigArgs ==
    [hosts : {None, <<"">>, <<"h1">>, <<"h2">>},
     time_reference : {None, <<"">>, <<"t1">>, <<"t2">>},
     pool_size : {None, <<1>>, <<2>>, <<3>>},
     auto_creation : {None, <<TRUE>>, <<FALSE>>}]

\* the parameter auto_creation=True of __init__
AutoCreationParam(args) ==
    IF args.auto_creation = None THEN <<TRUE>> ELSE args.auto_creation

AbsentConfig == [kind |-> "absent", cont |-> <<>>]
GarbageConfig == [kind |-> "garbage", cont |-> <<>>]
ObjectConfig(c) == [kind |-> "object", cont |-> <<c>>]

\* _load_cache returns True for a file that holds JSON
Cached(file) == file.kind = "object"

\* self._cont.update({k: v for k, v in cont.items() if v is not None}) with
\* the keys of the dict built for a cached configuration
UpdatedCont(cached, args) ==
    [hosts |-> IF args.hosts # None THEN args.hosts ELSE cached.hosts,
     time_reference |-> cached.time_reference,
     pool_size |-> IF args.pool_size # None THEN args.pool_size ELSE cached.pool_size,
     auto_creation |-> AutoCreationParam(args)]

\* self._cont of a configuration without cache
FreshCont(args) ==
    [hosts |-> args.hosts,
     time_reference |-> args.time_reference,
     pool_size |-> IF args.pool_size = None THEN <<default_pool_size>>
                   ELSE args.pool_size,
     auto_creation |-> AutoCreationParam(args)]

\* self._cont at the end of __init__
NewCont(file, args) ==
    IF Cached(file) THEN UpdatedCont(file.cont[1], args) ELSE FreshCont(args)

\* MigrationConfig.__init__: _load_cache, the update and _dump_cache
Construct(args) ==
    /\ pc = "start"
    /\ IF configFile.kind = "garbage"
       THEN /\ cont' = <<>>
            /\ configFile' = configFile
       ELSE /\ cont' = <<NewCont(configFile, args)>>
            /\ configFile' = ObjectConfig(NewCont(configFile, args))
    /\ UNCHANGED <<topology, cfgIndexes, cfgMappings, cfgPoolSize, cfgAuto,
                   ledgerFile, flagFile, staleFlag, provisioned, pc, tasks,
                   poolSize, pool, fut, consumed, tally, err, signals, runs,
                   dest, esMappings, setups>>

(* ------------------- repeated runs on one cache directory -------------- *)
\* The process of the run has ended (after discovery, or with the error
\* discovery raised) and migrate() is called again on the same cache.
NextRun ==
    /\ pc \in {"prepare", "raised"}
    /\ runs < MaxRuns
    /\ pc' = "start"
    /\ err' = "none"
    /\ tasks' = <<>>
    /\ poolSize' = 0
    /\ provisioned' = {}
    /\ UNCHANGED <<envVars, ledgerFile, flagFile, pool, fut, consumed, tally,
                   signals, runs>>

NumShards(topo, index) ==
    Cardinality({i \in 1..Len(topo) : GroupIndex(topo[i]) = index})

\* between two runs the cluster reports the next shard of an index
Grow(index, copies) ==
    /\ pc = "start"
    /\ Len(topology) < MaxGroups
    /\ NumShards(topology, index) < MaxShard
    /\ copies \in CopyLists(index, NumShards(topology, index))
    /\ topology' = Append(topology, copies)
    /\ UNCHANGED <<cfgIndexes, cfgMappings, cfgPoolSize, cfgAuto, ledgerFile,
                   flagFile, staleFlag, provisioned, pc, tasks, poolSize, pool,
                   fut, consumed, tally, err, signals, runs, extVars>>

\* the next run is configured with other mapping rules
SetMappings(rules) ==
    /\ pc = "start"
    /\ runs > 0
    /\ rules \in RuleSets
    /\ rules # cfgMappings
    /\ cfgMappings' = rules
    /\ UNCHANGED <<topology, cfgIndexes, cfgPoolSize, cfgAuto, ledgerFile,
                   flagFile, staleFlag, provisioned, pc, tasks, poolSize, pool,
                   fut, consumed, tally, err, signals, runs, extVars>>

IndexFilters == {{}, {IdxA, IdxK}}

\* the next run is configured with another index filter
SetIndexes(indexes) ==
    /\ pc = "start"
    /\ indexes \in IndexFilters
    /\ indexes # cfgIndexes
    /\ cfgIndexes' = indexes
    /\ UNCHANGED <<topology, cfgMappings, cfgPoolSize, cfgAuto, ledgerFile,
                   flagFile, staleFlag, provisioned, pc, tasks, poolSize, pool,
                   fut, consumed, tally, err, signals, runs, extVars>>

\* tasks.json is damaged between two runs
Corrupt(file) ==
    /\ pc = "start"
    /\ ledgerFile.kind = "list"
    /\ file \in {Garbage, OtherShape}
    /\ ledgerFile' = file
    /\ UNCHANGED <<envVars, flagFile, provisioned, pc, tasks, poolSize, pool,
                   fut, consumed, tally, err, signals, runs>>

InitLedger ==
    /\ topology = <<>>
    /\ cfgIndexes = {}
    /\ cfgMappings = RulesA
    /\ cfgPoolSize = 1
    /\ cfgAuto \in BOOLEAN
    /\ ledgerFile = Absent
    /\ flagFile = FALSE
    /\ staleFlag = FALSE
    /\ provisioned = {}
    /\ pc = "start"
    /\ tasks = <<>>
    /\ poolSize = 0
    /\ pool = "none"
    /\ fut = <<>>
    /\ consumed = {}
    /\ tally = ZeroTally(0)
    /\ err = "none"
    /\ signals = 0
    /\ runs = 0
    /\ dest = [s \in DestStores |-> NoStore]
    /\ esMappings = [i \in IndexNames |-> "m1"]
    /\ setups = 0
    /\ configFile = AbsentConfig
    /\ cont = <<>>

NextLedger ==
    \/ Discover
    \/ NextRun
    \/ \E index \in IndexNames :
         \E s \in 0..MaxShard : \E copies \in CopyLists(index, s) :
           Grow(index, copies)
    \/ \E rules \in RuleSets : SetMappings(rules)
    \/ \E indexes \in IndexFilters : SetIndexes(indexes)
    \/ \E file \in {Garbage, OtherShape} : Corrupt(file)

SpecLedger == InitLedger /\ [][NextLedger]_vars

(* --------------------- setup of one destination project ---------------- *)
RulesAll == {[logstore |-> Store1, patterns |-> {Pat(IdxA, TRUE), Pat(IdxB, FALSE)}]}

InitSetup ==
    /\ topology = CanonTopology(MaxGroups)
    /\ cfgIndexes = {}
    /\ cfgMappings \in {RulesA, RulesAll}
    /\ cfgPoolSize = 1
    /\ cfgAuto = TRUE
    /\ ledgerFile = Absent
    /\ flagFile = FALSE
    /\ staleFlag = FALSE
    /\ provisioned = {}
    /\ pc = "start"
    /\ tasks = <<>>
    /\ poolSize = 0
    /\ pool = "none"
    /\ fut = <<>>
    /\ consumed = {}
    /\ tally = ZeroTally(0)
    /\ err = "none"
    /\ signals = 0
    /\ runs = 0
    /\ dest \in [DestStores -> DestStates]
    /\ esMappings \in [IndexNames -> {"missing", "m1", "m2"}]
    /\ setups = 0
    /\ configFile = AbsentConfig
    /\ cont = <<>>

NextSetup == \E logstore \in DestStores : SetupLogstoreCall(logstore)

SpecSetup == InitSetup /\ [][NextSetup]_vars

(* ------------------ configurations on one cache directory -------------- *)
InitConfig ==
    /\ topology = <<>>
    /\ cfgIndexes = {}
    /\ cfgMappings = RulesA
    /\ cfgPoolSize = 1
    /\ cfgAuto = TRUE
    /\ ledgerFile = Absent
    /\ flagFile = FALSE
    /\ staleFlag = FALSE
    /\ provisioned = {}
    /\ pc = "start"
    /\ tasks = <<>>
    /\ poolSize = 0
    /\ pool = "none"
    /\ fut = <<>>
    /\ consumed = {}
    /\ tally = ZeroTally(0)
    /\ err = "none"
    /\ signals = 0
    /\ runs = 0
    /\ dest = [s \in DestStores |-> NoStore]
    /\ esMappings = [i \in IndexNames |-> "m1"]
    /\ setups = 0
    /\ configFile \in {AbsentConfig, GarbageConfig}
    /\ cont = <<>>

NextConfig == \E args \in ConfigArgs : Construct(args)

SpecConfig == InitConfig /\ [][NextConfig]_vars

(* ---------------------------- specification ---------------------------- *)
Init ==
    /\ \E n \in 0..MaxGroups : topology = CanonTopology(n)
    /\ cfgIndexes = {}
    /\ cfgMappings = RulesA
    /\ cfgPoolSize \in 1..MaxPool
    /\ cfgAuto \in BOOLEAN
    /\ ledgerFile = Absent
    /\ flagFile \in BOOLEAN
    /\ staleFlag = flagFile
    /\ provisioned = {}
    /\ pc = "start"
    /\ tasks = <<>>
    /\ poolSize = 0
    /\ pool = "none"
    /\ fut = <<>>
    /\ consumed = {}
    /\ tally = ZeroTally(0)
    /\ err = "none"
    /\ signals = 0
    /\ runs = 0
    /\ dest = [s \in DestStores |-> NoStore]
    /\ esMappings = [i \in IndexNames |-> "m1"]
    /\ setups = 0
    /\ configFile = AbsentConfig
    /\ cont = <<>>

Orchestrator ==
    \/ Discover
    \/ Prepare
    \/ CreatePool
    \/ Submit
    \/ \E i \in 1..MaxGroups + 1 : Aggregate(i)
    \/ CancelPending
    \/ GraceDone
    \/ ExitPool
    \/ Return

Workers ==
    \/ Enqueue
    \/ WorkerBegin
    \/ \E i \in 1..MaxGroups + 1 :
         \E o \in {CkFinished, CkDropped, CkFailed, "raised"} : WorkerFinish(i, o)

Next ==
    \/ Orchestrator
    \/ Workers
    \/ GraceTimeout
    \/ HandleTermSig
    \/ \E i \in 1..MaxGroups + 1 : WorkerTermSig(i)

Spec == Init /\ [][Next]_vars

\* The orchestrator process and the worker processes are scheduled by the
\* operating system: each keeps running while it can take a step.  Signals
\* and the expiry of the grace timeout are not bound to happen.
FairSpec == Spec /\ WF_vars(Orchestrator) /\ WF_vars(Workers)

(* ================================ claims =============================== *)
Pair(rec) == <<rec.es_index, rec.es_shard>>

\* C1: every discovery run that finds a parseable ledger keeps every record
\* of it, unchanged and in place, as a prefix of the ledger it writes, and
\* the records it appends are for (index, shard) pairs the old ledger did
\* not hold.
C1_LedgerPrefix ==
    [][(ledgerFile.kind = "list" /\ ledgerFile'.kind = "list")
         => /\ IsPrefix(ledgerFile.recs, ledgerFile'.recs)
            /\ \A i \in (Len(ledgerFile.recs) + 1)..Len(ledgerFile'.recs) :
                 Pair(ledgerFile'.recs[i]) \notin TaskMap(ledgerFile.recs)]_vars

\* a later run has kept a record whose logstore the current mapping rules
\* would resolve differently, and has appended to the ledger
C1_Witness ==
    /\ runs >= 2
    /\ pc = "prepare"
    /\ ledgerFile.kind = "list"
    /\ Len(ledgerFile.recs) >= 2
    /\ ledgerFile.recs[1].logstore
         # GetLogstore(ledgerFile.recs[1].es_index, cfgMappings)
    /\ ledgerFile.recs[Len(ledgerFile.recs)].logstore
         = GetLogstore(ledgerFile.recs[Len(ledgerFile.recs)].es_index, cfgMappings)
    /\ ledgerFile.recs[Len(ledgerFile.recs)].logstore
         # ledgerFile.recs[Len(ledgerFile.recs)].es_index

\* the ledger a discovery run writes from the current state
LedgerAfterRun(file, rules) ==
    ListFile(MergedTasks(file, DiscoveredTasks(topology, cfgIndexes), rules))

\* C2: a second discovery run over the same topology writes the ledger the
\* first one wrote, whatever the mapping rules of the second run, and no
\* ledger holds two records with the same (es_index, es_shard) or the same id.
C2_Idempotent ==
    /\ ~HandleCacheRaises(ledgerFile)
         => \A rules \in RuleSets :
              LedgerAfterRun(LedgerAfterRun(ledgerFile, cfgMappings), rules)
                = LedgerAfterRun(ledgerFile, cfgMappings)
    /\ \A i, j \in 1..Len(ledgerFile.recs) :
         i # j => /\ Pair(ledgerFile.recs[i]) # Pair(ledgerFile.recs[j])
                  /\ ledgerFile.recs[i].id # ledgerFile.recs[j].id

\* a second run has left a ledger of several records as the first wrote it
C2_Witness ==
    /\ runs >= 2
    /\ pc = "prepare"
    /\ ledgerFile.kind = "list"
    /\ Len(ledgerFile.recs) >= 2
    /\ tasks = ledgerFile.recs
    /\ Len(DiscoveredTasks(topology, cfgIndexes)) = Len(ledgerFile.recs)

\* C3: a _migration_worker invocation that begins while the shutdown flag
\* exists returns interrupted at once: its future goes from queued to
\* interrupted without passing through the state in which the clients are
\* built and the task runs.
C3_Cancellation ==
    [][\A i \in 1..Len(fut) :
         (flagFile /\ fut[i] = "queued" /\ fut'[i] # "queued")
            => fut'[i] = CkInterrupted]_vars

\* a worker has returned interrupted after a signal set the flag
C3_Witness ==
    /\ flagFile
    /\ signals > 0
    /\ \E i \in 1..Len(fut) : fut[i] = CkInterrupted

\* a task has been run by a worker to an outcome of its own
Ran(i) == i <= Len(fut) /\ fut[i] \in {CkFinished, CkDropped, CkFailed, "raised"}

\* C4: in a run that was started with a stale shutdown.lock and receives no
\* signal, no worker returns interrupted, and once migrate() has ended every
\* task has been run.
C4_StaleFlagCleared ==
    (staleFlag /\ signals = 0 /\ pool # "none")
       => /\ \A i \in 1..Len(fut) : fut[i] # CkInterrupted
          /\ pc \in {"returned", "raised"} => \A i \in 1..Len(tasks) : Ran(i)

\* C5: the number of task executions running in worker processes is at most
\* min(configured pool size, number of task records).
C5_PoolBound == NumIn({"running"}) <= Min(cfgPoolSize, Len(tasks))

\* as many workers are running as the configured size allows, with more
\* tasks than that
C5_Witness ==
    /\ Len(tasks) > cfgPoolSize
    /\ NumIn({"running"}) = cfgPoolSize

\* a signal has arrived, a worker has raised or a task has returned failed
Disturbed ==
    \/ signals > 0
    \/ \E i \in 1..Len(fut) : fut[i] \in {"raised", CkFailed}

\* C6: a run with at least one task, in which no worker raises or returns
\* failed and no signal arrives, returns; when it has returned every task
\* was run once to finished or dropped, every future was aggregated, and
\* finished + dropped = total = number of tasks, failed = 0.
C6_ErrorFreeRun ==
    /\ [](pc = "returned" /\ ~Disturbed
            => /\ \A i \in 1..Len(tasks) :
                    i <= Len(fut) /\ fut[i] \in {CkFinished, CkDropped}
               /\ consumed = 1..Len(tasks)
               /\ tally.total = Len(tasks)
               /\ tally.finished + tally.dropped = tally.total
               /\ tally.failed = 0)
    /\ (pc = "prepare" /\ Len(tasks) >= 1) ~> (pc = "returned" \/ Disturbed)

\* three shards discovered with no ledger got the ids 0, 1, 2 and the
\* undisturbed run, started with a stale flag file, returned with
\* finished + dropped = 3
C6_Witness ==
    /\ pc = "returned"
    /\ ~Disturbed
    /\ staleFlag
    /\ Len(tasks) = 3
    /\ \A i \in 1..3 : tasks[i].id = i - 1
    /\ tally.finished + tally.dropped = 3
    /\ tally.dropped > 0

\* C7: a run that has created its worker pool does not end by raising: it
\* ends by returning the tally.
C7_TallyOnEveryExit == pool # "none" => pc # "raised"

\* C8: when a worker has raised and no signal arrived, at the end of
\* migrate() every other task has been run to a status and that status has
\* been aggregated.
C8_Isolation ==
    (pc \in {"returned", "raised"} /\ pool # "none" /\ signals = 0
       /\ \E i \in 1..Len(fut) : fut[i] = "raised")
       => \A j \in 1..Len(tasks) :
            (j > Len(fut) \/ fut[j] # "raised")
               => j <= Len(fut) /\ fut[j] \in Results /\ j \in consumed

\* C9: in the tally migrate() returns, failed counts every task whose
\* execution raised (next to the tasks whose status failed was aggregated).
C9_FailedCounted ==
    (pc = "returned" /\ signals = 0)
       => tally.failed
            = NumIn({"raised"})
                + Cardinality({i \in consumed : fut[i] = CkFailed})

\* C10: a run whose discovery returned no task and which receives no signal
\* does not raise.
C10_ZeroTaskNoop ==
    (pc = "raised" /\ signals = 0 /\ err \notin {"TypeError", "LogException"})
       => Len(tasks) > 0

\* C11: when the grace wait has expired with a worker still running,
\* migrate() can leave the with block and end: it does not go on waiting
\* for that worker.
C11_BoundedWait ==
    (pc = "exit_pool" /\ err = "TimeoutError"
       /\ \A i \in 1..Len(fut) : fut[i] \in DoneStates \cup {"running"})
       => ENABLED ExitPool

\* C12: once the except block of the aggregation loop has run, whatever the
\* exception that escaped the loop, the shutdown flag exists.
C12_FlagOnError == pc = "grace" => flagFile

\* C13: with auto_creation, every task record discovery returns to
\* migrate() names a logstore that _setup_aliyun_log has set up in this run.
C13_Provisioned ==
    (cfgAuto /\ pc = "prepare")
       => \A i \in 1..Len(tasks) : tasks[i].logstore \in provisioned

StartedPrimary(g) ==
    \E k \in 1..Len(g) : g[k].state = "STARTED" /\ g[k].primary

HasTask(recs, g) ==
    \E i \in 1..Len(recs) : Pair(recs[i]) = <<GroupIndex(g), g[1].shard>>

\* C14: without an index filter the tasks discovery returns hold no index
\* whose name starts with '.'; with a filter, every started primary shard of
\* an index the filter names is a task.
C14_InternalExcluded ==
    pc = "prepare"
       => /\ cfgIndexes = {} => \A i \in 1..Len(tasks) : tasks[i].es_index[1] # "."
          /\ \A n \in 1..Len(topology) :
               (GroupIndex(topology[n]) \in cfgIndexes /\ StartedPrimary(topology[n]))
                  => HasTask(tasks, topology[n])

\* a discovery run that does not raise on the ledger it finds
DiscoverStep == pc = "start" /\ pc' # "start" /\ ~HandleCacheRaises(ledgerFile)

Selected(g) ==
    IF cfgIndexes = {} THEN GroupIndex(g)[1] # "." ELSE GroupIndex(g) \in cfgIndexes

\* C15: every record a discovery run appends is for a shard of which the
\* shard list holds a started primary copy, and every selected shard with a
\* started primary copy, however many copies it has, has exactly one record
\* in the ledger the run writes.
C15_PrimaryOnly ==
    [][DiscoverStep
         => /\ \A i \in (Len(OldTasks(ledgerFile)) + 1)..Len(ledgerFile'.recs) :
                 \E n \in 1..Len(topology) :
                    /\ StartedPrimary(topology[n])
                    /\ HasTask(<<ledgerFile'.recs[i]>>, topology[n])
            /\ \A n \in 1..Len(topology) :
                 (StartedPrimary(topology[n]) /\ Selected(topology[n]))
                    => Cardinality({i \in 1..Len(ledgerFile'.recs) :
                                      HasTask(<<ledgerFile'.recs[i]>>, topology[n])}) = 1]_vars

\* discovery has made one task of a shard with a started primary and a
\* started replica, and none of a shard whose primary is relocating
C15_Witness ==
    /\ pc = "prepare"
    /\ \E n \in 1..Len(topology) :
         /\ Len(topology[n]) = 2
         /\ StartedPrimary(topology[n])
         /\ HasTask(tasks, topology[n])
    /\ \E n \in 1..Len(topology) :
         /\ ~StartedPrimary(topology[n])
         /\ Selected(topology[n])
         /\ ~HasTask(tasks, topology[n])

\* C19: a discovery run that finds tasks.json unreadable as a list of task
\* records does not raise, and writes the ledger of a first run: the pairs
\* it discovered, numbered 0, 1, 2, ... in discovery order.
C19_CorruptRecovered ==
    [][(pc = "start" /\ pc' # "start" /\ ledgerFile.kind \in {"garbage", "object"})
         => /\ err' # "TypeError"
            /\ ledgerFile'
                 = ListFile(MergedTasks(Absent,
                                DiscoveredTasks(topology, cfgIndexes),
                                cfgMappings))]_vars

\* C20: when the setup of the logstores has failed, no pool and no future
\* exists, tasks.json holds a record for every discovered pair, and the next
\* discovery run, whatever its mapping rules, writes the same ledger.
C20_WrittenBeforeSetup ==
    (pc = "raised" /\ err = "LogException")
       => /\ pool = "none" /\ fut = <<>>
          /\ ledgerFile.kind = "list"
          /\ LET found == DiscoveredTasks(topology, cfgIndexes)
             IN  \A i \in 1..Len(found) :
                   <<found[i].es_index, found[i].es_shard>> \in TaskMap(ledgerFile.recs)
          /\ \A rules \in RuleSets : LedgerAfterRun(ledgerFile, rules) = ledgerFile

\* the setup failed in a later run that had appended a record to the ledger
\* of an earlier run
C20_Witness ==
    /\ pc = "raised"
    /\ err = "LogException"
    /\ runs >= 2
    /\ Len(ledgerFile.recs) >= 2
    /\ ledgerFile.recs[1].logstore
         # GetLogstore(ledgerFile.recs[1].es_index, cfgMappings)

Sum(st) == st.finished + st.dropped + st.failed

\* the tally after a future with the given state or result was handed out
Aggregated(st, res) ==
    IF res = CkFinished THEN [st EXCEPT !.finished = st.finished + 1]
    ELSE IF res = CkDropped THEN [st EXCEPT !.dropped = st.dropped + 1]
    ELSE IF res = CkFailed THEN [st EXCEPT !.failed = st.failed + 1]
    ELSE st

\* C18: the tally changes only when the loop hands out one done future that
\* it had not handed out before, by one increment of the counter of its
\* status (none for interrupted); so finished + dropped + failed is at most
\* the number of futures handed out, which is at most the number of done
\* futures, which is at most total.
C18_AggregationStep ==
    /\ [][/\ (tally' # tally /\ pc # "prepare") => consumed' # consumed
          /\ consumed' # consumed
               => \E i \in 1..Len(fut) :
                     /\ i \notin consumed
                     /\ consumed' = consumed \cup {i}
                     /\ fut[i] \in DoneStates
                     /\ tally' = Aggregated(tally, fut[i])]_vars
    /\ [](pool # "none"
            => /\ Sum(tally) <= Cardinality(consumed)
               /\ Cardinality(consumed) <= NumIn(DoneStates)
               /\ NumIn(DoneStates) <= tally.total)

\* a cancelled run has returned with every future done, an interrupted
\* result handed out and finished + dropped + failed below total
C18_Witness ==
    /\ pc = "returned"
    /\ signals > 0
    /\ Len(fut) = tally.total
    /\ AllDone
    /\ \E i \in consumed : fut[i] = CkInterrupted
    /\ Sum(tally) < tally.total

\* C16: from every state of the project, a call of _setup_logstore for a
\* logstore and its source indexes raises no error, and a second call with
\* the same arguments raises none either and leaves the project as the
\* first call left it.
C16_SetupIdempotent ==
    \A logstore \in DestStores :
      LET indexes == GetIndexes(logstore, FoundIndexes, cfgMappings)
          once == SetupLogstore(dest, logstore, indexes, esMappings)
          twice == SetupLogstore(once.dest, logstore, indexes, esMappings)
      IN  /\ once.code = "none"
          /\ twice.code = "none"
          /\ twice.dest = once.dest

\* two calls have been made without error and a logstore holds the index
\* config converted from the mappings of a source index
C16_Witness ==
    /\ setups >= 2
    /\ cfgMappings = RulesAll
    /\ err = "none"
    /\ \E logstore \in DestStores :
         /\ dest[logstore].exists
         /\ dest[logstore].index \in {ToIndexConfig("m1"), ToIndexConfig("m2")}

\* a value the caller supplied that is not the empty string
NonEmpty(f, v) ==
    /\ v # None
    /\ f \in {"hosts", "time_reference"} => v # <<"">>

\* C17: for every cached configuration and every call, a field the caller
\* supplied with a non-empty value takes that value and every other field
\* keeps its cached value.
C17_ResumeSemantics ==
    Cached(configFile)
       => \A args \in ConfigArgs : \A f \in ConfigFields :
            IF NonEmpty(f, args[f])
            THEN NewCont(configFile, args)[f] = args[f]
            ELSE NewCont(configFile, args)[f] = configFile.cont[1][f]

====
